---- MODULE Spec2Model ----
(***************************************************************************)
(* Model of ble_scan.py: one run of main(), from parsed arguments to the   *)
(* process exit code.  Standard output is the sequence `out` of printed    *)
(* lines, in print order.                                                  *)
(*                                                                         *)
(* Python values: None is the empty sequence <<>> and a present value v is *)
(* the one-element sequence <<v>>.  A str is a sequence of one-character   *)
(* strings, so that lower() and the `in` substring test are computed.      *)
(***************************************************************************)
EXTENDS Integers, Sequences, FiniteSets, TLC

VARIABLES
    bleakAvailable, \* BleakScanner is not None (import at lines 16-19 succeeded)
    timeout,        \* args.timeout
    filter_name,    \* args.filter_name : None or a str
    json,           \* args.json
    pc,             \* position of the run in main()/do_scan()
    scanned,        \* the list BleakScanner.discover returned (kept for reference)
    devices,        \* local `devices` of do_scan
    formatted,      \* local `formatted` of do_scan
    results,        \* local `results` of main
    exc,            \* the exception in flight: None or <<message>>
    out,            \* lines printed to standard output, in order
    discoverCalls,  \* number of times BleakScanner.discover was invoked
    uncaught,       \* an exception left main() uncaught (interpreter traceback)
    exitCode        \* None while running, else <<process exit status>>

vars == <<bleakAvailable, timeout, filter_name, json, pc, scanned, devices,
          formatted, results, exc, out, discoverCalls, uncaught, exitCode>>

\* ------------------------------------------------------------------ bounds
MaxDevices == 2

\* ------------------------------------------------------------ Python values
None == <<>>
Some(v) == <<v>>

\* bool(x) for an Optional[str]: None and "" are falsy
Truthy(s) == s # None /\ s[1] # <<>>

\* str.lower() on one character of the modelled alphabet
LowerChar(c) ==
    CASE c = "A" -> "a"
      [] c = "B" -> "b"
      [] OTHER -> c

\* str.lower()
Lower(s) == [i \in 1..Len(s) |-> LowerChar(s[i])]

\* the Python test `a in b` on two str
In(a, b) ==
    \E i \in 0..(Len(b) - Len(a)) :
        \A k \in 1..Len(a) : b[i + k] = a[k]

\* ----------------------------------------------------- external collaborator
\* Attribute values of a device object: "absent" is a missing attribute,
\* "{}" an empty mapping, "{uuids}" a non-empty mapping of JSON values,
\* "{bytes}" a mapping holding bytes (manufacturer data), "obj" a platform
\* object.  The last two are not JSON serializable.
Serializable(m) == m \in {"{}", "{uuids}"}
TruthyMapping(m) == m \in {"{uuids}", "{bytes}", "obj"}

\* The devices in radio range.  discover() returns distinct devices (it
\* deduplicates by address), each with an address, an optional name, an
\* optional rssi attribute and backend-dependent metadata/details.
Universe ==
    { [address |-> "AA", name |-> Some(<<"A", "b">>), rssi |-> Some(-61),
       metadata |-> "{uuids}", details |-> "obj"],
      [address |-> "BB", name |-> None, rssi |-> None,
       metadata |-> "absent", details |-> "obj"],
      [address |-> "CC", name |-> Some(<<>>), rssi |-> Some(-70),
       metadata |-> "{}", details |-> "{}"],
      [address |-> "DD", name |-> Some(<<"b", "A">>), rssi |-> Some(-70),
       metadata |-> "{bytes}", details |-> "absent"],
      [address |-> "EE", name |-> Some(<<"B">>), rssi |-> Some(-80),
       metadata |-> "absent", details |-> "absent"] }

\* every list of at most MaxDevices distinct devices
ScanResults ==
    { s \in UNION { [1..n -> Universe] : n \in 0..MaxDevices } :
        \A i, j \in 1..Len(s) : i # j => s[i] # s[j] }

\* values of --filter-name: absent, empty, or a substring
FilterNames ==
    { None, Some(<<>>), Some(<<"a">>), Some(<<"B">>), Some(<<"A", "B">>),
      Some(<<"b", "b">>) }

Timeouts == { "5.0", "1.0" }

\* ------------------------------------------------------------------ do_scan
\* the condition of the list comprehension at line 30
Matches_CaseSensitive(d, f) == Truthy(d.name) /\ In(f, d.name[1])
Matches(d, f) == Truthy(d.name) /\ In(Lower(f), Lower(d.name[1]))

\* the list comprehension at line 30
RECURSIVE FilterByName_Reversed(_, _)
FilterByName_Reversed(ds, f) ==
    IF ds = <<>> THEN <<>>
    ELSE IF Matches(Head(ds), f)
         THEN Append(FilterByName_Reversed(Tail(ds), f), Head(ds))
         ELSE FilterByName_Reversed(Tail(ds), f)
RECURSIVE FilterByName(_, _)
FilterByName(ds, f) ==
    IF ds = <<>> THEN <<>>
    ELSE IF Matches(Head(ds), f)
         THEN <<Head(ds)>> \o FilterByName(Tail(ds), f)
         ELSE FilterByName(Tail(ds), f)

\* `if filter_name:` at line 29
FilterActive_NotNone(f) == f # None
FilterActive(f) == Truthy(f)

\* getattr(d, "metadata", {}) or getattr(d, "details", {})
Getattr(m) == IF m = "absent" THEN "{}" ELSE m
DetailsOf(d) ==
    IF TruthyMapping(Getattr(d.metadata)) THEN Getattr(d.metadata)
    ELSE Getattr(d.details)

\* the dict built at lines 38-44
Item(d) ==
    [address |-> d.address,
     name    |-> IF Truthy(d.name) THEN d.name[1] ELSE <<>>,
     rssi    |-> d.rssi,
     details |-> DetailsOf(d)]

\* a printed line
Line(kind, text, items) == [kind |-> kind, text |-> text, items |-> items]

\* json.dumps(results, indent=2) raises TypeError on a value it cannot encode
Dumpable(rs) == \A i \in 1..Len(rs) : Serializable(rs[i].details)

Init ==
    /\ bleakAvailable \in BOOLEAN
    /\ timeout \in Timeouts
    /\ filter_name \in FilterNames
    /\ json \in BOOLEAN
    /\ pc = "do_scan"
    /\ scanned = <<>>
    /\ devices = <<>>
    /\ formatted = <<>>
    /\ results = <<>>
    /\ exc = None
    /\ out = <<>>
    /\ discoverCalls = 0
    /\ uncaught = FALSE
    /\ exitCode = None

\* lines 23-24: the binding check on entry to do_scan
CheckBinding_Skipped ==
    /\ pc = "do_scan"
    /\ pc' = "progress"
    /\ UNCHANGED <<bleakAvailable, timeout, filter_name, json, scanned, devices,
                   formatted, results, exc, out, discoverCalls, uncaught, exitCode>>
CheckBinding ==
    /\ pc = "do_scan"
    /\ IF ~bleakAvailable
       THEN /\ exc' = Some("bleak is not installed. Run: pip install bleak")
            /\ pc' = "except"
       ELSE /\ exc' = exc
            /\ pc' = "progress"
    /\ UNCHANGED <<bleakAvailable, timeout, filter_name, json, scanned, devices,
                   formatted, results, out, discoverCalls, uncaught, exitCode>>

\* line 26
PrintProgress_Silent ==
    /\ pc = "progress"
    /\ pc' = "discover"
    /\ UNCHANGED <<bleakAvailable, timeout, filter_name, json, scanned, devices,
                   formatted, results, exc, out, discoverCalls, uncaught, exitCode>>
PrintProgress ==
    /\ pc = "progress"
    /\ out' = Append(out, Line("progress", timeout, <<>>))
    /\ pc' = "discover"
    /\ UNCHANGED <<bleakAvailable, timeout, filter_name, json, scanned, devices,
                   formatted, results, exc, discoverCalls, uncaught, exitCode>>

\* line 27: the awaited discovery either returns a list or raises
Discover_Partial ==
    /\ pc = "discover"
    /\ discoverCalls' = discoverCalls + 1
    /\ \/ \E s \in ScanResults :
            /\ scanned' = s
            /\ devices' = s
            /\ exc' = exc
            /\ pc' = "filter"
       \/ \E s \in ScanResults :
            /\ exc' = Some("scan failed")
            /\ scanned' = s
            /\ devices' = s
            /\ pc' = "filter"
    /\ UNCHANGED <<bleakAvailable, timeout, filter_name, json, formatted,
                   results, out, uncaught, exitCode>>
Discover ==
    /\ pc = "discover"
    /\ discoverCalls' = discoverCalls + 1
    /\ \/ /\ bleakAvailable
          /\ \E s \in ScanResults :
                /\ scanned' = s
                /\ devices' = s
                /\ exc' = exc
                /\ pc' = "filter"
       \/ /\ exc' = Some("scan failed")
          /\ pc' = "except"
          /\ UNCHANGED <<scanned, devices>>
    /\ UNCHANGED <<bleakAvailable, timeout, filter_name, json, formatted,
                   results, out, uncaught, exitCode>>

\* lines 29-30
Filter ==
    /\ pc = "filter"
    /\ devices' = IF FilterActive(filter_name)
                  THEN FilterByName(devices, filter_name[1])
                  ELSE devices
    /\ pc' = "check_empty"
    /\ UNCHANGED <<bleakAvailable, timeout, filter_name, json, scanned,
                   formatted, results, exc, out, discoverCalls, uncaught, exitCode>>

\* lines 32-36
CheckEmpty_Raw ==
    /\ pc = "check_empty"
    /\ IF scanned = <<>>
       THEN /\ out' = Append(out, Line("none", "No devices found.", <<>>))
            /\ results' = <<>>
            /\ pc' = "returned"
       ELSE /\ pc' = "format"
            /\ UNCHANGED <<out, results>>
    /\ formatted' = <<>>
    /\ UNCHANGED <<bleakAvailable, timeout, filter_name, json, scanned, devices,
                   exc, discoverCalls, uncaught, exitCode>>
CheckEmpty_Quiet ==
    /\ pc = "check_empty"
    /\ IF devices = <<>>
       THEN /\ results' = <<>>
            /\ pc' = "returned"
       ELSE /\ pc' = "format"
            /\ UNCHANGED results
    /\ formatted' = <<>>
    /\ UNCHANGED <<bleakAvailable, timeout, filter_name, json, scanned, devices,
                   exc, out, discoverCalls, uncaught, exitCode>>
CheckEmpty ==
    /\ pc = "check_empty"
    /\ IF devices = <<>>
       THEN /\ out' = Append(out, Line("none", "No devices found.", <<>>))
            /\ results' = <<>>
            /\ pc' = "returned"
       ELSE /\ pc' = "format"
            /\ UNCHANGED <<out, results>>
    /\ formatted' = <<>>
    /\ UNCHANGED <<bleakAvailable, timeout, filter_name, json, scanned, devices,
                   exc, discoverCalls, uncaught, exitCode>>

\* lines 37-46: one iteration of the loop over `devices`
FormatOne ==
    /\ pc = "format"
    /\ Len(formatted) < Len(devices)
    /\ LET item == Item(devices[Len(formatted) + 1]) IN
         /\ formatted' = Append(formatted, item)
         /\ out' = Append(out, Line("device", "", <<item>>))
    /\ UNCHANGED <<bleakAvailable, timeout, filter_name, json, pc, scanned,
                   devices, results, exc, discoverCalls, uncaught, exitCode>>

\* line 48, and the assignment to `results` at line 62
ReturnFormatted ==
    /\ pc = "format"
    /\ Len(formatted) = Len(devices)
    /\ results' = formatted
    /\ pc' = "returned"
    /\ UNCHANGED <<bleakAvailable, timeout, filter_name, json, scanned, devices,
                   formatted, exc, out, discoverCalls, uncaught, exitCode>>

\* lines 63-65
Except ==
    /\ pc = "except"
    /\ out' = Append(out, Line("error", exc[1], <<>>))
    /\ exitCode' = Some(2)
    /\ pc' = "done"
    /\ UNCHANGED <<bleakAvailable, timeout, filter_name, json, scanned, devices,
                   formatted, results, exc, discoverCalls, uncaught>>

\* lines 67-68: outside the try block, so a TypeError of json.dumps leaves
\* main() and the interpreter exits with status 1
PrintJson ==
    /\ pc = "returned"
    /\ IF ~json
       THEN /\ pc' = "return0"
            /\ UNCHANGED <<out, exc, uncaught, exitCode>>
       ELSE IF Dumpable(results)
       THEN /\ out' = Append(out, Line("json", "", results))
            /\ pc' = "return0"
            /\ UNCHANGED <<exc, uncaught, exitCode>>
       ELSE /\ exc' = Some("Object is not JSON serializable")
            /\ uncaught' = TRUE
            /\ exitCode' = Some(1)
            /\ pc' = "done"
            /\ UNCHANGED out
    /\ UNCHANGED <<bleakAvailable, timeout, filter_name, json, scanned, devices,
                   formatted, results, discoverCalls>>

\* line 70
Return0 ==
    /\ pc = "return0"
    /\ exitCode' = Some(0)
    /\ pc' = "done"
    /\ UNCHANGED <<bleakAvailable, timeout, filter_name, json, scanned, devices,
                   formatted, results, exc, out, discoverCalls, uncaught>>

Next ==
    \/ CheckBinding
    \/ PrintProgress
    \/ Discover
    \/ Filter
    \/ CheckEmpty
    \/ FormatOne
    \/ ReturnFormatted
    \/ Except
    \/ PrintJson
    \/ Return0

Spec == Init /\ [][Next]_vars

\* ------------------------------------------------------------- observations
\* the printed lines of one kind, in print order
LinesOf(kind) == SelectSeq(out, LAMBDA l : l.kind = kind)
Count(kind) == Len(LinesOf(kind))

\* the records shown by the human-readable lines, in print order
DeviceItems == [i \in 1..Count("device") |-> LinesOf("device")[i].items[1]]

\* Item applied to every element of a list
Items(ds) == [i \in 1..Len(ds) |-> Item(ds[i])]

ProgressLine == Line("progress", timeout, <<>>)
NoneLine == Line("none", "No devices found.", <<>>)

ScanFailed == exc = Some("scan failed")
\* discover() was invoked and returned a list
ScanReturned == discoverCalls = 1 /\ ~ScanFailed
\* the filter stage is over
Filtered == ScanReturned /\ pc # "filter"
\* do_scan has returned to main
Returned == ScanReturned /\ pc \in {"returned", "return0", "done"}

\* two characters equal up to letter case
CaseEq(a, b) == a = b \/ {a, b} \in {{"a", "A"}, {"b", "B"}}
\* name contains s, comparing characters without regard to case
ContainsCI(name, s) ==
    \E i \in 0..(Len(name) - Len(s)) :
        \A k \in 1..Len(s) : CaseEq(name[i + k], s[k])

Kept(d) == \E j \in 1..Len(devices) : devices[j] = d

\* --filter-name was given a non-empty string
NonEmptyFilter == filter_name # None /\ filter_name[1] # <<>>

\* ------------------------------------------------------------------- claims

C2_EveryExceptionCaught ==
    pc = "done" =>
        /\ exitCode \in {Some(0), Some(2)}
        /\ ~uncaught
        /\ exc = None => exitCode = Some(0)
        /\ exc # None =>
              /\ exitCode = Some(2)
              /\ LinesOf("error") = <<Line("error", exc[1], <<>>)>>

\* C3: with a non-empty filter string S, a scanned record is kept exactly
\* when it has a non-empty name containing S without regard to case, and
\* every record that reaches the output is such a record.
C3_FilterSoundAndComplete ==
    (Filtered /\ NonEmptyFilter) =>
        /\ \A i \in 1..Len(scanned) :
              Kept(scanned[i]) <=>
                  /\ scanned[i].name # None
                  /\ scanned[i].name[1] # <<>>
                  /\ ContainsCI(scanned[i].name[1], filter_name[1])
        /\ \A j \in 1..Len(devices) :
              \E i \in 1..Len(scanned) : scanned[i] = devices[j]
        /\ \A k \in 1..Len(DeviceItems) :
              /\ DeviceItems[k].name # <<>>
              /\ ContainsCI(DeviceItems[k].name, filter_name[1])

C3_Witness ==
    /\ pc = "done" /\ Filtered
    /\ filter_name = Some(<<"A", "B">>)
    /\ Len(scanned) = 2 /\ Len(devices) = 1
    /\ devices[1].name = Some(<<"A", "b">>)
    /\ Count("device") = 1

\* C4: when --filter-name is absent or empty, the records that are
\* formatted and output are exactly the scanned records, the same number in
\* the same order, unnamed records included.
C4_NoFilterIsIdentity ==
    ~NonEmptyFilter =>
        /\ Filtered => devices = scanned
        /\ Returned => DeviceItems = Items(scanned)
        /\ (Returned /\ scanned # <<>>) => results = Items(scanned)

C4_Witness ==
    /\ pc = "done" /\ Returned
    /\ filter_name = Some(<<>>)
    /\ Len(scanned) >= 2
    /\ \E i \in 1..Len(scanned) : scanned[i].name = None
    /\ Count("device") = Len(scanned)

\* C5: in a run with --json and a non-empty filtered list the JSON array is
\* printed exactly once, after every human-readable line, with one object
\* with keys address, name, rssi, details per filtered record; without
\* --json no JSON is ever printed.
C5_JsonOnceAfterLines ==
    /\ ~json => Count("json") = 0
    /\ Count("json") <= 1
    /\ \A i \in 1..Len(out) :
          out[i].kind = "json" =>
              /\ i = Len(out)
              /\ Count("device") = Len(devices)
              /\ out[i].items = Items(devices)
              /\ \A k \in 1..Len(out[i].items) :
                    DOMAIN out[i].items[k] = {"address", "name", "rssi", "details"}
    /\ (pc = "done" /\ Returned /\ json /\ devices # <<>>) => Count("json") = 1

\* C6: when the BLE binding is not installed, discovery is never invoked,
\* no device line and no 'No devices found.' line is printed, and the run
\* prints 'Error during scan: <message>' and exits with 2.
C6_UnavailableBinding ==
    ~bleakAvailable =>
        /\ discoverCalls = 0
        /\ Count("device") = 0
        /\ Count("none") = 0
        /\ pc = "done" =>
              /\ LinesOf("error") =
                    <<Line("error", "bleak is not installed. Run: pip install bleak", <<>>)>>
              /\ exitCode = Some(2)

C6_Witness ==
    /\ ~bleakAvailable /\ pc = "done" /\ json
    /\ Count("error") = 1

\* C7: discovery is invoked at most once in a run, and a run whose scan
\* failed returns no records and prints no device line, no 'No devices
\* found.' line and no JSON, even with --json.
C7_NoPartialResultsNoRetry ==
    /\ discoverCalls <= 1
    /\ ScanFailed =>
          /\ devices = <<>> /\ formatted = <<>> /\ results = <<>>
          /\ Count("device") = 0
          /\ Count("none") = 0
          /\ Count("json") = 0

C7_Witness ==
    /\ ScanFailed /\ pc = "done" /\ json /\ discoverCalls = 1
    /\ exitCode = Some(2)

\* C8: in every run in which the scan is started, exactly one progress line
\* is printed, and it is printed before discovery starts, hence before any
\* other line.
C8_ProgressFirst ==
    /\ Count("progress") <= 1
    /\ pc = "discover" => out = <<ProgressLine>>
    /\ discoverCalls >= 1 =>
          /\ Count("progress") = 1
          /\ out[1] = ProgressLine

C8_Witness ==
    /\ pc = "done" /\ discoverCalls = 1
    /\ Len(out) >= 3 /\ out[1] = ProgressLine

\* the scanned records that survive, in discovery order
Survivors == SelectSeq(scanned, Kept)

\* C9: the surviving records keep their discovery order through the run:
\* the i-th human-readable line and the i-th JSON object describe the i-th
\* surviving record of the scan result, one per record.
C9_OrderPreserved ==
    Filtered =>
        /\ devices = Survivors
        /\ Len(DeviceItems) <= Len(Survivors)
        /\ \A i \in 1..Len(DeviceItems) : DeviceItems[i] = Item(Survivors[i])
        /\ Returned => Len(DeviceItems) = Len(Survivors)
        /\ \A n \in 1..Len(out) :
              out[n].kind = "json" => out[n].items = Items(Survivors)

C9_Witness ==
    /\ pc = "done" /\ Filtered /\ NonEmptyFilter
    /\ Len(devices) >= 2
    /\ Count("device") = Len(devices)
    /\ Count("json") = 1

\* C10: when the scan returns records but the name filter removes all of
\* them, the run prints 'No devices found.' once, prints no device line,
\* returns an empty list and exits with 0.
C10_EmptyAfterFilter ==
    (Filtered /\ scanned # <<>> /\ devices = <<>>) =>
        /\ Count("device") = 0
        /\ Count("error") = 0
        /\ pc \in {"returned", "return0", "done"} =>
              /\ LinesOf("none") = <<NoneLine>>
              /\ results = <<>>
        /\ pc = "done" =>
              /\ exitCode = Some(0)
              /\ out = IF json
                       THEN <<ProgressLine, NoneLine, Line("json", "", <<>>)>>
                       ELSE <<ProgressLine, NoneLine>>

C10_Witness ==
    /\ pc = "done" /\ Filtered /\ NonEmptyFilter
    /\ Len(scanned) >= 1 /\ devices = <<>>
    /\ Count("none") = 1

====
